---- MODULE Spec2Model ----
(***************************************************************************)
(* Model of the Schelling tile-swap simulation: the grid systems of        *)
(* grid_models.py, the tile store of tile_model.py and the World of        *)
(* world_model.py with its run_step algorithm.                             *)
(*                                                                         *)
(* A Tile object is identified by the key under which TileSystem stores    *)
(* it (its GridLocation at construction); tiles_dict maps that key to the  *)
(* object's fields.  A desirability score, a Python float quotient of two  *)
(* small integers, is kept as the exact pair <<numerator, denominator>>    *)
(* and compared by cross multiplication; a denominator of 0 stands for the *)
(* ZeroDivisionError the division raises.                                  *)
(***************************************************************************)
EXTENDS Integers, Sequences, FiniteSets, TLC

\* ---------------------------------------------------------------- bounds
MaxRows == 3
MaxCols == 4
MaxCells == 9
MaxAgents == 3
MaxNewDim == 2
MaxNewCells == 2
MaxWeight == 2

\* ------------------------------------------------------------ tile types
Empty == "Empty"
Green == "Green"
Blue == "Blue"
TileType == {Empty, Green, Blue}

\* rows, cols, center_on_origin: fields of World.grid
\* tiles_dict: World.tile_system.tiles_dict
\* pc, pos: position in World.__init__ or run_step and its loop index
\* movement_matrix, non_dups: locals of run_step
\* pre: the store when the current run_step was called
\* outcome: how the last call ended
\* type_weight_dict, type_prob: fields of World.rtg
\* r: the last value of random.random()
\* twin_tiles_dict: the store of a second World built from the same
\*   arguments and tile list, whose run_step calls are taken whole
VARIABLES rows, cols, center_on_origin, tiles_dict,
          pc, pos, movement_matrix, non_dups, pre, outcome,
          type_weight_dict, type_prob, r, twin_tiles_dict

vars == <<rows, cols, center_on_origin, tiles_dict,
          pc, pos, movement_matrix, non_dups, pre, outcome,
          type_weight_dict, type_prob, r, twin_tiles_dict>>

\* ------------------------------------------------------------ grid_models
octagonal_directions ==
  << <<1, 0>>, <<1, 1>>, <<0, 1>>, <<-1, 1>>,
     <<-1, 0>>, <<-1, -1>>, <<0, -1>>, <<1, -1>> >>

hexagonal_directions ==
  << <<0, 1>>, <<1, 1>>, <<1, 0>>, <<0, -1>>, <<-1, 0>>, <<-1, 1>> >>

\* indices(): row-major list of the (row, column) pairs of the grid
indices(rs, cs, cen) ==
  LET r0 == IF cen THEN -rs ELSE 0
      c0 == IF cen THEN -cs ELSE 0
      nr0 == IF cen THEN 2 * rs + 1 ELSE rs
      nc0 == IF cen THEN 2 * cs + 1 ELSE cs
      nr == IF nr0 > 0 THEN nr0 ELSE 0
      nc == IF nc0 > 0 THEN nc0 ELSE 0
  IN [k \in 1..(nr * nc) |-> <<r0 + ((k - 1) \div nc), c0 + ((k - 1) % nc)>>]

\* _is_within_bounds: the column is held against the bounds made from rows
\* and the row against the bounds made from cols, both ends inclusive
is_within_bounds(rs, cs, cen, grid_loc) ==
  LET top_bound == cs
      bottom_bound == IF cen THEN -cs ELSE 0
      left_bound == IF cen THEN -rs ELSE 0
      right_bound == rs
  IN /\ left_bound <= grid_loc[2] /\ grid_loc[2] <= right_bound
     /\ top_bound >= grid_loc[1] /\ grid_loc[1] >= bottom_bound

\* neighbours of either grid system: the direction list applied to grid_loc,
\* filtered by _is_within_bounds, in direction order
neighbours(directions, rs, cs, cen, grid_loc) ==
  SelectSeq([k \in 1..Len(directions) |->
               <<grid_loc[1] + directions[k][1], grid_loc[2] + directions[k][2]>>],
            LAMBDA l : is_within_bounds(rs, cs, cen, l))

SeqToSet(s) == {s[k] : k \in 1..Len(s)}

\* ------------------------------------------------------------- tile_model
\* A weight table is the dict in insertion order, a sequence of
\* <<type, weight>>.  A probability v/norm and a draw of random.random() are
\* kept as exact fractions <<numerator, denominator>> (the float rounding of
\* the quotients and of their sums is not modelled).

\* sum(self.type_weight_dict.values())
RECURSIVE SumWeights(_)
SumWeights(dct) ==
  IF Len(dct) = 0 THEN 0 ELSE dct[1][2] + SumWeights(Tail(dct))

\* sorted(dct.items(), key=itemgetter(1)): ascending, equal values stay in
\* dict order
sorted_t_list(dct) ==
  LET rank(i) == 1 + Cardinality({j \in 1..Len(dct) :
                        \/ dct[j][2] < dct[i][2]
                        \/ dct[j][2] = dct[i][2] /\ j < i})
  IN [k \in 1..Len(dct) |-> dct[CHOOSE i \in 1..Len(dct) : rank(i) = k]]

FracLe(a, b) == a[1] * b[2] <= b[1] * a[2]
FracLt(a, b) == a[1] * b[2] < b[1] * a[2]

\* RandomTileTypeGenerator._norm_weight_prob: raised (ZeroDivisionError of
\* v/norm), or the dict type -> (lower, upper) in sorted order
norm_weight_prob(dct) ==
  LET norm == SumWeights(dct)
      sorted == sorted_t_list(dct)
      markers == [k \in 1..(Len(dct) + 1) |->
                    IF k = Len(dct) + 1 THEN <<1, 1>>
                    ELSE <<SumWeights(SubSeq(sorted, 1, k - 1)), norm>>]
  IN IF Len(dct) > 0 /\ norm = 0
     THEN [raised |-> TRUE, type_prob |-> <<>>]
     ELSE [raised |-> FALSE,
           type_prob |-> [i \in 1..Len(dct) |->
                            <<sorted[i][1], <<markers[i], markers[i + 1]>>>>]]

\* get_random_tile with the test prob_range[0] <= r < prob_range[1]
get_random_tile_half_open(tp, x) ==
  LET hits == {k \in 1..Len(tp) : FracLe(tp[k][2][1], x) /\ FracLt(x, tp[k][2][2])}
  IN IF hits = {} THEN Empty
     ELSE tp[CHOOSE k \in hits : \A j \in hits : k <= j][1]

\* RandomTileTypeGenerator.get_random_tile for the draw x of random.random():
\* the first type, in dict order, whose range holds x; Empty when none does
get_random_tile(tp, x) ==
  LET hits == {k \in 1..Len(tp) : FracLe(tp[k][2][1], x) /\ FracLe(x, tp[k][2][2])}
  IN IF hits = {} THEN Empty
     ELSE tp[CHOOSE k \in hits : \A j \in hits : k <= j][1]

Tile(tile_type, tile_position, tile_id) ==
  [tile_type |-> tile_type, tile_position |-> tile_position, tile_id |-> tile_id]

\* Tile.__eq__: two tile objects are equal when their ids are
TileEq(td, a, b) == td[a].tile_id = td[b].tile_id

\* TileSystem.tile_at_loc: <<t>> for the tile stored under loc, <<>> for None
tile_at_loc(td, loc) == IF loc \in DOMAIN td THEN <<loc>> ELSE <<>>

\* switch_tiles with the two assignments of each line done one after the
\* other: both tiles end with the type and id of t2
switch_tiles_sequential(td, t1, t2) ==
  [td EXCEPT ![t1] = [tile_type |-> td[t2].tile_type,
                      tile_position |-> td[t1].tile_position,
                      tile_id |-> td[t2].tile_id]]

\* switch_tiles without its second line: the types are exchanged, the ids stay
switch_tiles_type_only(td, t1, t2) ==
  [td EXCEPT ![t1] = [tile_type |-> td[t2].tile_type,
                      tile_position |-> td[t1].tile_position,
                      tile_id |-> td[t1].tile_id],
             ![t2] = [tile_type |-> td[t1].tile_type,
                      tile_position |-> td[t2].tile_position,
                      tile_id |-> td[t2].tile_id]]

\* switch_tiles that exchanges the positions along with type and id
switch_tiles_whole(td, t1, t2) ==
  [td EXCEPT ![t1] = td[t2], ![t2] = td[t1]]

\* TileSystem.switch_tiles: exchange type and id, positions stay
switch_tiles(td, t1, t2) ==
  [td EXCEPT ![t1] = [tile_type |-> td[t2].tile_type,
                      tile_position |-> td[t1].tile_position,
                      tile_id |-> td[t2].tile_id],
             ![t2] = [tile_type |-> td[t1].tile_type,
                      tile_position |-> td[t2].tile_position,
                      tile_id |-> td[t1].tile_id]]

\* ------------------------------------------------------------ world_model
\* World.tile_neighbours: the grid neighbours of the tile's position that
\* the tile store resolves to a tile (None results are filtered out)
tile_neighbours(td, t) ==
  LET ns_loc == neighbours(octagonal_directions, rows, cols, center_on_origin,
                           td[t].tile_position)
  IN SelectSeq(ns_loc, LAMBDA loc : tile_at_loc(td, loc) # <<>>)

Count(s, Test(_)) == Len(SelectSeq(s, Test))

\* World.tile_desirability: <<2*same - 2*diff + empty, 2*len(ns)>>;
\* a second component of 0 is the ZeroDivisionError of the division
tile_desirability(td, t, tile_type, self_des) ==
  IF td[t].tile_type = Empty /\ self_des
  THEN <<0, 1>>
  ELSE LET ns == tile_neighbours(td, t)
           same0 == Count(ns, LAMBDA n : td[n].tile_type = tile_type)
           empty0 == Count(ns, LAMBDA n : td[n].tile_type = Empty)
           diff == Count(ns, LAMBDA n : td[n].tile_type # tile_type
                                        /\ td[n].tile_type # Empty)
           same == IF self_des THEN same0 ELSE same0 - 1
           empty == IF self_des THEN empty0 ELSE empty0 + 1
       IN <<2 * same - 2 * diff + empty, 2 * Len(ns)>>

Raises(score) == score[2] = 0

\* comparison of two float quotients with positive denominators
ScoreGt(a, b) == a[1] * b[2] > b[1] * a[2]
ScoreLt(a, b) == a[1] * b[2] < b[1] * a[2]
ScoreEq(a, b) == a[1] * b[2] = b[1] * a[2]

\* desirability_matrix without the filter on Empty: every neighbour is listed
desirability_matrix_all(td, t) ==
  LET ns == tile_neighbours(td, t)
  IN [k \in 1..Len(ns) |->
        <<ns[k], tile_desirability(td, ns[k], td[t].tile_type, FALSE)>>]

\* World.desirability_matrix: (neighbour, score it would have for the type
\* of t) for the Empty neighbours of t, in neighbour order
desirability_matrix(td, t) ==
  LET ns == tile_neighbours(td, t)
      es == SelectSeq(ns, LAMBDA n : td[n].tile_type = Empty)
  IN [k \in 1..Len(es) |->
        <<es[k], tile_desirability(td, es[k], td[t].tile_type, FALSE)>>]

\* a max that keeps the last of several equal maxima
MaxByScore_last(des_mat) ==
  LET k == CHOOSE k \in 1..Len(des_mat) :
             /\ \A j \in 1..Len(des_mat) : ~ScoreGt(des_mat[j][2], des_mat[k][2])
             /\ \A j \in (k + 1)..Len(des_mat) : ScoreLt(des_mat[j][2], des_mat[k][2])
  IN des_mat[k]

\* max(des_mat, key=itemgetter(1)): the first entry no other entry exceeds
MaxByScore(des_mat) ==
  LET k == CHOOSE k \in 1..Len(des_mat) :
             /\ \A j \in 1..Len(des_mat) : ~ScoreGt(des_mat[j][2], des_mat[k][2])
             /\ \A j \in 1..(k - 1) : ScoreLt(des_mat[j][2], des_mat[k][2])
  IN des_mat[k]

\* min(conflicts, key=itemgetter(1)): the first entry no other entry is below
MinByScore(conflicts) ==
  LET k == CHOOSE k \in 1..Len(conflicts) :
             /\ \A j \in 1..Len(conflicts) : ~ScoreLt(conflicts[j][2], conflicts[k][2])
             /\ \A j \in 1..(k - 1) : ScoreGt(conflicts[j][2], conflicts[k][2])
  IN conflicts[k]

\* result of wants_to_move_to_tile: raised, or tile = <<t>> / <<>> for None
Returned(opt) == [raised |-> FALSE, tile |-> opt]
Raised == [raised |-> TRUE, tile |-> <<>>]

\* wants_to_move_to_tile with max_[1] >= self_des in place of >
wants_to_move_to_tile_or_equal(td, t) ==
  IF td[t].tile_type = Empty
  THEN Returned(<<>>)
  ELSE LET self_des == tile_desirability(td, t, td[t].tile_type, TRUE)
           des_mat == desirability_matrix(td, t)
       IN IF Raises(self_des) \/ \E k \in 1..Len(des_mat) : Raises(des_mat[k][2])
          THEN Raised
          ELSE IF Len(des_mat) = 0
               THEN Returned(<<>>)
               ELSE LET max_ == MaxByScore(des_mat)
                    IN IF ~ScoreLt(max_[2], self_des)
                       THEN Returned(<<max_[1]>>)
                       ELSE Returned(<<>>)

\* wants_to_move_to_tile that answers the tile itself, not None, when no
\* neighbour is better
wants_to_move_to_tile_or_stay(td, t) ==
  IF td[t].tile_type = Empty
  THEN Returned(<<>>)
  ELSE LET self_des == tile_desirability(td, t, td[t].tile_type, TRUE)
           des_mat == desirability_matrix(td, t)
       IN IF Raises(self_des) \/ \E k \in 1..Len(des_mat) : Raises(des_mat[k][2])
          THEN Raised
          ELSE IF Len(des_mat) = 0
               THEN Returned(<<>>)
               ELSE LET max_ == MaxByScore(des_mat)
                    IN IF ScoreGt(max_[2], self_des)
                       THEN Returned(<<max_[1]>>)
                       ELSE Returned(<<t>>)

\* World.wants_to_move_to_tile
wants_to_move_to_tile(td, t) ==
  IF td[t].tile_type = Empty
  THEN Returned(<<>>)
  ELSE LET self_des == tile_desirability(td, t, td[t].tile_type, TRUE)
           des_mat == desirability_matrix(td, t)
       IN IF Raises(self_des) \/ \E k \in 1..Len(des_mat) : Raises(des_mat[k][2])
          THEN Raised
          ELSE IF Len(des_mat) = 0
               THEN Returned(<<>>)
               ELSE LET max_ == MaxByScore(des_mat)
                    IN IF ScoreGt(max_[2], self_des)
                       THEN Returned(<<max_[1]>>)
                       ELSE Returned(<<>>)

\* unique_min_des without the test for several candidates
unique_min_des_first(conflicts) == <<MinByScore(conflicts)[1]>>

\* World.unique_min_des: <<t>> for the only proposer of minimal
\* self desirability, <<>> (None) when several share the minimum
unique_min_des(conflicts) ==
  LET min_ == MinByScore(conflicts)
      candidates == SelectSeq(conflicts, LAMBDA c : ScoreEq(c[2], min_[2]))
  IN IF Len(candidates) > 1 THEN <<>> ELSE <<min_[1]>>

\* the first loop of rem_dups without the known_duplicates test: a popped
\* proposal is held against the proposals still in mm only
RECURSIVE rem_dups_pop_remaining(_, _, _, _, _)
rem_dups_pop_remaining(td, mm, known_duplicates, non_duplicates, conflicts) ==
  IF Len(mm) = 0
  THEN [non_duplicates |-> non_duplicates, conflicts |-> conflicts]
  ELSE LET last == mm[Len(mm)]
           rest == SubSeq(mm, 1, Len(mm) - 1)
       IN IF \E k \in 1..Len(rest) : TileEq(td, rest[k][2], last[2])
          THEN rem_dups_pop_remaining(td, rest, Append(known_duplicates, last[2]),
                 non_duplicates,
                 IF \E k \in 1..Len(conflicts) : TileEq(td, conflicts[k][1], last[2])
                 THEN [k \in 1..Len(conflicts) |->
                         IF TileEq(td, conflicts[k][1], last[2])
                         THEN <<conflicts[k][1], <<last[1]>>>>
                         ELSE conflicts[k]]
                 ELSE Append(conflicts, <<last[2], <<last[1]>>>>))
          ELSE rem_dups_pop_remaining(td, rest, known_duplicates,
                 Append(non_duplicates, <<last[1][1], last[2]>>), conflicts)

\* first loop of rem_dups (while mm: last = mm.pop() ...); conflicts is the
\* dict in insertion order, a sequence of <<destination, proposers>>
RECURSIVE rem_dups_pop(_, _, _, _, _)
rem_dups_pop(td, mm, known_duplicates, non_duplicates, conflicts) ==
  IF Len(mm) = 0
  THEN [non_duplicates |-> non_duplicates, conflicts |-> conflicts]
  ELSE LET last == mm[Len(mm)]
           rest == SubSeq(mm, 1, Len(mm) - 1)
       IN IF \E k \in 1..Len(known_duplicates) :
                TileEq(td, known_duplicates[k], last[2])
          THEN rem_dups_pop(td, rest, known_duplicates, non_duplicates,
                 [k \in 1..Len(conflicts) |->
                    IF TileEq(td, conflicts[k][1], last[2])
                    THEN <<conflicts[k][1], Append(conflicts[k][2], last[1])>>
                    ELSE conflicts[k]])
          ELSE IF \E k \in 1..Len(rest) : TileEq(td, rest[k][2], last[2])
               THEN rem_dups_pop(td, rest, Append(known_duplicates, last[2]),
                      non_duplicates, Append(conflicts, <<last[2], <<last[1]>>>>))
               ELSE rem_dups_pop(td, rest, known_duplicates,
                      Append(non_duplicates, <<last[1][1], last[2]>>), conflicts)

\* second loop of rem_dups (for t, c in conflicts.items(): ...)
RECURSIVE rem_dups_conflicts(_, _, _)
rem_dups_conflicts(conflicts, k, non_duplicates) ==
  IF k > Len(conflicts)
  THEN non_duplicates
  ELSE LET unique == unique_min_des(conflicts[k][2])
       IN rem_dups_conflicts(conflicts, k + 1,
            IF unique # <<>>
            THEN Append(non_duplicates, <<unique[1], conflicts[k][1]>>)
            ELSE non_duplicates)

\* World.rem_dups: list of accepted (proposer, destination) pairs
rem_dups(td, mm) ==
  LET popped == rem_dups_pop(td, mm, <<>>, <<>>, <<>>)
  IN rem_dups_conflicts(popped.conflicts, 1, popped.non_duplicates)

\* ------------------------------------------------------------------ state
\* World.__init__ without a tile list: tile i of indices() gets the drawn
\* type types[i], its location and the id i - 1
World_init(rs, cs, cen, types) ==
  LET idx == indices(rs, cs, cen)
  IN [loc \in SeqToSet(idx) |->
        LET i == CHOOSE i \in 1..Len(idx) : idx[i] = loc
        IN Tile(types[i], loc, i - 1)]

\* the weight table the interface builds its World with
twd == << <<Empty, 6>>, <<Green, 3>>, <<Blue, 3>> >>

\* iteration order of tiles_dict.values(): insertion order, that of indices()
tiles_order == indices(rows, cols, center_on_origin)

\* self_des of run_step
SelfDes(td, t) == tile_desirability(td, t, td[t].tile_type, TRUE)

\* [self.tile_system.switch_tiles(t[0], t[1]) for t in non_dups]
RECURSIVE ApplySwaps(_, _)
ApplySwaps(td, pairs) ==
  IF Len(pairs) = 0 THEN td
  ELSE ApplySwaps(switch_tiles(td, pairs[1][1], pairs[1][2]), Tail(pairs))

\* the for loop of run_step over the first n tiles of the visiting order,
\* on store td: the movement matrix it has collected after n tiles
RECURSIVE ProposalsOn(_, _)
ProposalsOn(td, n) ==
  IF n = 0 THEN <<>>
  ELSE LET t == tiles_order[n]
           des_tile == wants_to_move_to_tile(td, t).tile
       IN IF des_tile # <<>>
          THEN Append(ProposalsOn(td, n - 1), <<<<t, SelfDes(td, t)>>, des_tile[1]>>)
          ELSE ProposalsOn(td, n - 1)

\* World.run_step as a function of the store it is called on: the store it
\* leaves (the store itself when the call raises)
run_step(td) ==
  IF \E t \in SeqToSet(tiles_order) :
       Raises(SelfDes(td, t)) \/ wants_to_move_to_tile(td, t).raised
  THEN td
  ELSE ApplySwaps(td, rem_dups(td, ProposalsOn(td, Len(tiles_order))))

Init ==
  /\ rows \in 1..MaxRows
  /\ cols \in 1..MaxCols
  /\ center_on_origin \in BOOLEAN
  /\ Len(indices(rows, cols, center_on_origin)) <= MaxCells
  /\ \E agents \in SUBSET (1..Len(indices(rows, cols, center_on_origin))) :
       /\ Cardinality(agents) <= MaxAgents
       /\ \E drawn \in [agents -> {Green, Blue}] :
            tiles_dict = World_init(rows, cols, center_on_origin,
                           [i \in 1..Len(indices(rows, cols, center_on_origin)) |->
                              IF i \in agents THEN drawn[i] ELSE Empty])
  /\ pc = "idle"
  /\ pos = 0
  /\ movement_matrix = <<>>
  /\ non_dups = <<>>
  /\ pre = tiles_dict
  /\ outcome = "none"
  /\ type_weight_dict = twd
  /\ type_prob = norm_weight_prob(twd).type_prob
  /\ r = <<0, 1>>
  /\ twin_tiles_dict = tiles_dict

\* the grid system and the generator are not written after construction, and
\* run_step makes no draw
grid_unchanged == UNCHANGED <<rows, cols, center_on_origin,
                              type_weight_dict, type_prob, r>>

\* run_step is entered: movement_matrix = [], the for loop starts
RunStep ==
  /\ pc = "idle"
  /\ pc' = "propose"
  /\ pos' = 1
  /\ movement_matrix' = <<>>
  /\ non_dups' = <<>>
  /\ pre' = tiles_dict
  /\ outcome' = "running"
  /\ UNCHANGED tiles_dict
  /\ grid_unchanged
  /\ UNCHANGED twin_tiles_dict

\* an iteration of the for loop that switches the tiles as soon as the
\* proposal is known, instead of after the loop
Propose_and_switch ==
  /\ pc = "propose"
  /\ pos <= Len(tiles_order)
  /\ LET tile == tiles_order[pos]
         self_des == tile_desirability(tiles_dict, tile,
                                       tiles_dict[tile].tile_type, TRUE)
         des_tile == wants_to_move_to_tile(tiles_dict, tile)
     IN /\ ~Raises(self_des)
        /\ ~des_tile.raised
        /\ movement_matrix' =
             IF des_tile.tile # <<>>
             THEN Append(movement_matrix, <<<<tile, self_des>>, des_tile.tile[1]>>)
             ELSE movement_matrix
        /\ tiles_dict' =
             IF des_tile.tile # <<>>
             THEN switch_tiles(tiles_dict, tile, des_tile.tile[1])
             ELSE tiles_dict
  /\ pos' = pos + 1
  /\ UNCHANGED <<pc, non_dups, pre, outcome>>
  /\ grid_unchanged
  /\ UNCHANGED twin_tiles_dict

\* an iteration of the for loop in which a tile that wants to move takes
\* one of its best Empty neighbours by a draw r (random.choice) instead of
\* the first of them
Propose_random_choice ==
  /\ pc = "propose"
  /\ pos <= Len(tiles_order)
  /\ LET tile == tiles_order[pos]
         self_des == tile_desirability(tiles_dict, tile,
                                       tiles_dict[tile].tile_type, TRUE)
         des_tile == wants_to_move_to_tile(tiles_dict, tile)
         des_mat == desirability_matrix(tiles_dict, tile)
     IN /\ ~Raises(self_des)
        /\ ~des_tile.raised
        /\ IF des_tile.tile # <<>>
           THEN \E k \in 1..Len(des_mat) :
                  /\ ScoreEq(des_mat[k][2], MaxByScore(des_mat)[2])
                  /\ r' = <<k - 1, Len(des_mat)>>
                  /\ movement_matrix' =
                       Append(movement_matrix, <<<<tile, self_des>>, des_mat[k][1]>>)
           ELSE UNCHANGED <<movement_matrix, r>>
  /\ pos' = pos + 1
  /\ UNCHANGED <<tiles_dict, pc, non_dups, pre, outcome>>
  /\ UNCHANGED <<rows, cols, center_on_origin, type_weight_dict, type_prob>>
  /\ UNCHANGED twin_tiles_dict

\* one iteration of the for loop of run_step
Propose ==
  /\ pc = "propose"
  /\ pos <= Len(tiles_order)
  /\ \E tile \in {tiles_order[pos]} :
     \E self_des \in {tile_desirability(tiles_dict, tile,
                                       tiles_dict[tile].tile_type, TRUE)} :
     \E des_tile \in {wants_to_move_to_tile(tiles_dict, tile)} :
        /\ ~Raises(self_des)
        /\ ~des_tile.raised
        /\ movement_matrix' =
             IF des_tile.tile # <<>>
             THEN Append(movement_matrix, <<<<tile, self_des>>, des_tile.tile[1]>>)
             ELSE movement_matrix
  /\ pos' = pos + 1
  /\ UNCHANGED <<tiles_dict, pc, non_dups, pre, outcome>>
  /\ grid_unchanged
  /\ UNCHANGED twin_tiles_dict

\* an iteration of the for loop whose scoring divides by zero: the
\* ZeroDivisionError leaves run_step, nothing has been written
ProposeRaise ==
  /\ pc = "propose"
  /\ pos <= Len(tiles_order)
  /\ LET tile == tiles_order[pos]
     IN \/ Raises(tile_desirability(tiles_dict, tile,
                                    tiles_dict[tile].tile_type, TRUE))
        \/ wants_to_move_to_tile(tiles_dict, tile).raised
  /\ pc' = "idle"
  /\ pos' = 0
  /\ movement_matrix' = <<>>
  /\ outcome' = "ZeroDivisionError"
  /\ UNCHANGED <<tiles_dict, non_dups, pre>>
  /\ grid_unchanged
  /\ twin_tiles_dict' = run_step(twin_tiles_dict)

\* non_dups = self.rem_dups(movement_matrix)
Resolve ==
  /\ pc = "propose"
  /\ pos > Len(tiles_order)
  /\ non_dups' = rem_dups(tiles_dict, movement_matrix)
  /\ pc' = "commit"
  /\ pos' = 1
  /\ UNCHANGED <<tiles_dict, movement_matrix, pre, outcome>>
  /\ grid_unchanged
  /\ UNCHANGED twin_tiles_dict

\* one element of [switch_tiles(t[0], t[1]) for t in non_dups]
Commit ==
  /\ pc = "commit"
  /\ pos <= Len(non_dups)
  /\ tiles_dict' = switch_tiles(tiles_dict, non_dups[pos][1], non_dups[pos][2])
  /\ pos' = pos + 1
  /\ UNCHANGED <<pc, movement_matrix, non_dups, pre, outcome>>
  /\ grid_unchanged
  /\ UNCHANGED twin_tiles_dict

\* return None
Return ==
  /\ pc = "commit"
  /\ pos > Len(non_dups)
  /\ pc' = "idle"
  /\ pos' = 0
  /\ outcome' = "ok"
  /\ UNCHANGED <<tiles_dict, movement_matrix, non_dups, pre>>
  /\ grid_unchanged
  /\ twin_tiles_dict' = run_step(twin_tiles_dict)

Next == RunStep \/ Propose \/ ProposeRaise \/ Resolve \/ Commit \/ Return

Spec == Init /\ [][Next]_vars

\* ------------------------------------------- World.__init__, random world
\* Construction with tiles=None, one action per statement; the list
\* comprehension of the tiles takes one action per tile.  pc is "new" before
\* the generator is built, "draw" while the tiles are drawn, "idle" once the
\* World exists and "failed" when the constructor raised.

\* the orders in which a dict can hold some of the tile types
TypeOrders ==
  UNION {{q \in [1..n -> TileType] :
            \A i \in 1..n : \A j \in 1..n : q[i] = q[j] => i = j} : n \in 0..3}

\* the weight tables passed as tile_weights
WeightTables ==
  UNION {{[i \in 1..Len(q) |-> <<q[i], w[i]>>] :
            w \in [1..Len(q) -> 0..MaxWeight]} : q \in TypeOrders}

\* values of random.random(), in [0, 1): the range boundaries k/norm of the
\* table and the points half way between them
Draws(dct) ==
  LET den == IF SumWeights(dct) = 0 THEN 2 ELSE 2 * SumWeights(dct)
  IN {<<k, den>> : k \in 0..(den - 1)}

InitConstruct ==
  /\ rows \in -1..MaxNewDim
  /\ cols \in -1..MaxNewDim
  /\ center_on_origin \in BOOLEAN
  /\ Len(indices(rows, cols, center_on_origin)) <= MaxNewCells
  /\ type_weight_dict \in WeightTables
  /\ type_prob = <<>>
  /\ r = <<0, 1>>
  /\ tiles_dict = <<>>
  /\ twin_tiles_dict = <<>>
  /\ pc = "new"
  /\ pos = 0
  /\ movement_matrix = <<>>
  /\ non_dups = <<>>
  /\ pre = <<>>
  /\ outcome = "none"

\* self.rtg = RandomTileTypeGenerator(tile_weights)
World_rtg ==
  /\ pc = "new"
  /\ ~norm_weight_prob(type_weight_dict).raised
  /\ type_prob' = norm_weight_prob(type_weight_dict).type_prob
  /\ pc' = "draw"
  /\ UNCHANGED <<rows, cols, center_on_origin, tiles_dict, pos,
                 movement_matrix, non_dups, pre, outcome, type_weight_dict, r,
                 twin_tiles_dict>>

\* the same statement when v/norm raises: no World is made
World_rtg_raise ==
  /\ pc = "new"
  /\ norm_weight_prob(type_weight_dict).raised
  /\ pc' = "failed"
  /\ outcome' = "ZeroDivisionError"
  /\ UNCHANGED <<rows, cols, center_on_origin, tiles_dict, pos,
                 movement_matrix, non_dups, pre, type_weight_dict, type_prob, r,
                 twin_tiles_dict>>

\* Tile(self.rtg.get_random_tile(), GridLocation(j[0], j[1]), i) for the
\* next (i, j) of enumerate(indices)
World_draw ==
  /\ pc = "draw"
  /\ pos < Len(tiles_order)
  /\ \E x \in Draws(type_weight_dict) :
       /\ r' = x
       /\ tiles_dict' =
            [loc \in DOMAIN tiles_dict \cup {tiles_order[pos + 1]} |->
               IF loc = tiles_order[pos + 1]
               THEN Tile(get_random_tile(type_prob, x), loc, pos)
               ELSE tiles_dict[loc]]
  /\ pos' = pos + 1
  /\ UNCHANGED <<rows, cols, center_on_origin, pc, movement_matrix, non_dups,
                 pre, outcome, type_weight_dict, type_prob, twin_tiles_dict>>

\* self.tile_system = TileSystem(ts): the World is constructed
World_done ==
  /\ pc = "draw"
  /\ pos = Len(tiles_order)
  /\ pc' = "idle"
  /\ pos' = 0
  /\ pre' = tiles_dict
  /\ UNCHANGED <<rows, cols, center_on_origin, tiles_dict, movement_matrix,
                 non_dups, outcome, type_weight_dict, type_prob, r,
                 twin_tiles_dict>>

NextConstruct == World_rtg \/ World_rtg_raise \/ World_draw \/ World_done

SpecConstruct == InitConstruct /\ [][NextConstruct]_vars

\* ================================================================ claims
Tiles == DOMAIN tiles_dict
IndexSet == SeqToSet(indices(rows, cols, center_on_origin))
InUnitRange(score) == -score[2] <= score[1] /\ score[1] <= score[2]

\* C1: in every reachable state the self desirability of every tile and
\* every destination score in the desirability matrix of every agent (non
\* Empty tile) lie in [-1, 1]; a score whose division raises is left to C2.
C1_ScoresInUnitRange ==
  \A t \in Tiles :
    /\ ~Raises(SelfDes(tiles_dict, t)) => InUnitRange(SelfDes(tiles_dict, t))
    /\ tiles_dict[t].tile_type # Empty =>
         LET dm == desirability_matrix(tiles_dict, t)
         IN \A k \in 1..Len(dm) : ~Raises(dm[k][2]) => InUnitRange(dm[k][2])

\* C2: scoring never ends in a division fault: run_step never leaves with a
\* ZeroDivisionError and a tile without resolved neighbours scores 0.
C2_NoDivisionFault ==
  /\ outcome # "ZeroDivisionError"
  /\ \A t \in Tiles :
       Len(tile_neighbours(tiles_dict, t)) = 0 => SelfDes(tiles_dict, t) = <<0, 1>>

\* the bounds the specification gives: rows in [-rows, rows] or [0, rows),
\* columns in [-cols, cols] or [0, cols)
InRowBound(i) == IF center_on_origin THEN -rows <= i /\ i <= rows
                                    ELSE 0 <= i /\ i < rows
InColBound(c) == IF center_on_origin THEN -cols <= c /\ c <= cols
                                    ELSE 0 <= c /\ c < cols
StatedNeighbours(directions, loc) ==
  SelectSeq([k \in 1..Len(directions) |->
               <<loc[1] + directions[k][1], loc[2] + directions[k][2]>>],
            LAMBDA l : InRowBound(l[1]) /\ InColBound(l[2]))

\* C3: for both topologies neighbours(loc) of a location of indices() is
\* exactly the list of loc + d, in direction order, that lie inside the row
\* and column bounds of the grid, i.e. that indices() enumerates.
C3_NeighboursAreTheInBoundsOffsets ==
  \A loc \in IndexSet :
    \A directions \in {octagonal_directions, hexagonal_directions} :
      neighbours(directions, rows, cols, center_on_origin, loc)
        = StatedNeighbours(directions, loc)

\* the world of the conflict example: 1 row, 3 columns, not centred,
\* [Green (0,0) id 0, Empty (0,1) id 1, Green (0,2) id 2]
IsConflictExample(td) ==
  /\ rows = 1 /\ cols = 3 /\ ~center_on_origin
  /\ td = World_init(1, 3, FALSE, <<Green, Empty, Green>>)

\* C4: in the conflict example both Green tiles propose the Empty tile at
\* (0,1), and the movement matrix of run_step holds the two proposals.
C4_BothGreensProposeTheEmpty ==
  /\ IsConflictExample(tiles_dict) =>
       /\ wants_to_move_to_tile(tiles_dict, <<0, 0>>) = Returned(<< <<0, 1>> >>)
       /\ wants_to_move_to_tile(tiles_dict, <<0, 2>>) = Returned(<< <<0, 1>> >>)
  /\ (IsConflictExample(pre) /\ pc = "commit") =>
       /\ Len(movement_matrix) = 2
       /\ \A k \in 1..2 : movement_matrix[k][2] = <<0, 1>>

\* seq read in the order f, a permutation of its indices
Reorder(seq, f) == [k \in 1..Len(seq) |-> seq[f[k]]]

\* proposers of movement matrix mm that name the destination of entry k
Rivals(mm, k) == {j \in 1..Len(mm) : j # k /\ mm[j][2] = mm[k][2]}

\* the proposals of mm whose proposer has a strictly lower self desirability
\* than every other proposer of the same destination
StrictlyLowest(mm) ==
  {k \in 1..Len(mm) : \A j \in Rivals(mm, k) : ScoreLt(mm[k][1][2], mm[j][1][2])}

AcceptedPairs(mm) == {<<mm[k][1][1], mm[k][2]>> : k \in StrictlyLowest(mm)}

\* C5: rem_dups accepts a proposal (p, d) exactly when p has a strictly lower
\* self desirability than every other proposer of d, each accepted pair is
\* listed once, and the accepted pairs are the same wherever the proposals
\* stand in the list.
C5_AcceptedIffStrictlyLowest ==
  pc = "commit" =>
    /\ SeqToSet(non_dups) = AcceptedPairs(movement_matrix)
    /\ Len(non_dups) = Cardinality(AcceptedPairs(movement_matrix))
    /\ pos = 1 =>
         \A f \in Permutations(1..Len(movement_matrix)) :
           SeqToSet(rem_dups(tiles_dict, Reorder(movement_matrix, f)))
             = AcceptedPairs(movement_matrix)

\* witness of C5: a destination with three proposers whose strictly lowest
\* one sits between the two others in the movement matrix and is accepted
C5_Witness ==
  /\ pc = "commit"
  /\ \E k \in StrictlyLowest(movement_matrix) :
       /\ \E i, j \in Rivals(movement_matrix, k) : i < k /\ k < j
       /\ <<movement_matrix[k][1][1], movement_matrix[k][2]>> \in SeqToSet(non_dups)

LoopOver == pc = "commit" /\ pos = 1
StepOver == pc = "commit" /\ pos > Len(non_dups)

\* C6: two-phase step.  While proposals are collected no tile is written
\* (the store equals the pre-step store); when the loop is over the movement
\* matrix holds exactly the proposals of all tiles computed on the pre-step
\* store, each proposer once; and the store after the commits is the same
\* for every order in which the proposals could have been collected.
C6_TwoPhaseStep ==
  /\ pc = "propose" => tiles_dict = pre
  /\ LoopOver =>
       /\ tiles_dict = pre
       /\ movement_matrix = ProposalsOn(pre, Len(tiles_order))
  /\ StepOver =>
       \A f \in Permutations(1..Len(movement_matrix)) :
         ApplySwaps(pre, rem_dups(pre, Reorder(movement_matrix, f))) = tiles_dict

\* witness of C6: a finished step with a contested destination and two
\* committed swaps
C6_Witness ==
  /\ StepOver
  /\ Len(non_dups) >= 2
  /\ \E k \in 1..Len(movement_matrix) : Rivals(movement_matrix, k) # {}
  /\ tiles_dict # pre

\* C7: the accepted pairs of a step touch pairwise disjoint tiles (no tile
\* is in two pairs, in either role), so every order of committing them gives
\* the same store.
C7_AcceptedPairsDisjoint ==
  /\ pc = "commit" =>
       /\ \A k \in 1..Len(non_dups) : non_dups[k][1] # non_dups[k][2]
       /\ \A j, k \in 1..Len(non_dups) :
            j # k => {non_dups[j][1], non_dups[j][2]}
                       \cap {non_dups[k][1], non_dups[k][2]} = {}
  /\ StepOver =>
       \A f \in Permutations(1..Len(non_dups)) :
         ApplySwaps(pre, Reorder(non_dups, f)) = tiles_dict

\* witness of C7: a finished step that committed three swaps
C7_Witness == StepOver /\ Len(non_dups) >= 3

IdsOf(td) == {td[t].tile_id : t \in DOMAIN td}

\* C8: the store holds one tile per location of indices(), every tile's
\* position is its key, and the ids are 0..N-1, each held by one tile.
C8_StoreShapeAndIds ==
  /\ DOMAIN tiles_dict = IndexSet
  /\ \A t \in Tiles : tiles_dict[t].tile_position = t
  /\ IdsOf(tiles_dict) = 0..(Cardinality(IndexSet) - 1)
  /\ \A t, u \in Tiles : tiles_dict[t].tile_id = tiles_dict[u].tile_id => t = u

\* witness of C8: a step has returned after moving ids between tiles
C8_Witness ==
  /\ pc = "idle" /\ outcome = "ok"
  /\ Cardinality({t \in Tiles : tiles_dict[t].tile_id # pre[t].tile_id}) >= 4

EmptyNeighbours(td, t) ==
  {n \in SeqToSet(tile_neighbours(td, t)) : td[n].tile_type = Empty}

\* destination score of every Empty neighbour of t for the type of t
DestScores(td, t) ==
  [e \in EmptyNeighbours(td, t) |-> tile_desirability(td, e, td[t].tile_type, FALSE)]

\* the arguments of a score function whose score no other one exceeds
Best(scores) ==
  {m \in DOMAIN scores : \A e \in DOMAIN scores : ~ScoreGt(scores[e], scores[m])}

\* C9: between steps (the stores wants_to_move_to_tile is called on, the loop
\* of run_step reading the pre-step store) wants_to_move_to_tile
\* returns a destination exactly when the tile is not Empty, has an Empty neighbour and the maximal destination score is
\* strictly above its self desirability; the destination is an Empty
\* neighbour carrying that maximum.
C9_ProposalIffStrictlyBetter ==
  pc = "idle" => \A t \in Tiles :
    LET w == wants_to_move_to_tile(tiles_dict, t)
        scores == DestScores(tiles_dict, t)
        best == Best(scores)
        self_des == SelfDes(tiles_dict, t)
    IN /\ w.raised => DOMAIN scores = {}
       /\ ~w.raised =>
            /\ w.tile # <<>> <=>
                 /\ tiles_dict[t].tile_type # Empty
                 /\ DOMAIN scores # {}
                 /\ \E m \in best : ScoreGt(scores[m], self_des)
            /\ w.tile # <<>> => w.tile[1] \in best

\* witness of C9: the for loop of run_step has recorded a proposal while
\* another agent, whose best destination only equals its self desirability,
\* was visited and recorded none
C9_Witness ==
  /\ pc = "commit"
  /\ Len(movement_matrix) >= 1
  /\ \E t \in Tiles :
       LET scores == DestScores(pre, t)
       IN /\ pre[t].tile_type # Empty
          /\ \E m \in Best(scores) : ScoreEq(scores[m], SelfDes(pre, t))
          /\ \A k \in 1..Len(movement_matrix) : movement_matrix[k][1][1] # t

Offset(t, k) == <<t[1] + octagonal_directions[k][1], t[2] + octagonal_directions[k][2]>>

\* C10: between steps, among the Empty neighbours that share the maximal
\* destination score the proposal names the one of the earliest octagonal direction.
C10_FirstMaximumInDirectionOrder ==
  pc = "idle" => \A t \in Tiles :
    LET w == wants_to_move_to_tile(tiles_dict, t)
        best == Best(DestScores(tiles_dict, t))
        position == tiles_dict[t].tile_position
    IN w.tile # <<>> =>
         \A a, b \in 1..Len(octagonal_directions) :
           (Offset(position, a) = w.tile[1] /\ Offset(position, b) \in best)
             => a <= b

\* witness of C10: the for loop of run_step has recorded a proposal whose
\* maximal score is shared by another Empty neighbour of the proposer
C10_Witness ==
  /\ pc = "propose"
  /\ tiles_dict = pre
  /\ \E k \in 1..Len(movement_matrix) :
       LET best == Best(DestScores(pre, movement_matrix[k][1][1]))
       IN movement_matrix[k][2] \in best /\ Cardinality(best) >= 2

\* a location in the first or last row or column of the configured grid
OnBorder(loc) ==
  \/ loc[1] = (IF center_on_origin THEN -rows ELSE 0)
  \/ loc[1] = (IF center_on_origin THEN rows ELSE rows - 1)
  \/ loc[2] = (IF center_on_origin THEN -cols ELSE 0)
  \/ loc[2] = (IF center_on_origin THEN cols ELSE cols - 1)

\* C11: for both topologies every location of indices() has at least 1 and
\* at most degree (8 or 6) neighbours, and fewer than degree only on the
\* border of the grid.
C11_NeighbourCountBound ==
  \A loc \in IndexSet :
    \A directions \in {octagonal_directions, hexagonal_directions} :
      LET n == Len(neighbours(directions, rows, cols, center_on_origin, loc))
      IN /\ 1 <= n
         /\ n <= Len(directions)
         /\ n < Len(directions) => OnBorder(loc)

\* no agent of store td has an Empty neighbour scoring above its self
\* desirability
Equilibrium(td) ==
  \A t \in DOMAIN td :
    td[t].tile_type # Empty =>
      LET scores == DestScores(td, t)
          self_des == SelfDes(td, t)
      IN \A e \in DOMAIN scores : ~ScoreGt(scores[e], self_des)

\* C12: when every agent's self desirability is at least the score of each
\* of its Empty neighbours in the store a run_step starts from, that run_step
\* records no proposal, accepts no move and leaves every tile as it was (so
\* the next run_step starts from the same store).
C12_EquilibriumIsAbsorbing ==
  (tiles_dict # pre \/ Len(movement_matrix) > 0 \/ Len(non_dups) > 0)
    => ~Equilibrium(pre)

\* witness of C12: a run_step has returned from an equilibrium that earlier
\* steps had reached by moving agents next to Empty tiles
C12_Witness ==
  /\ pc = "idle" /\ outcome = "ok"
  /\ Equilibrium(pre)
  /\ tiles_dict = pre
  /\ \E t \in Tiles :
       /\ tiles_dict[t].tile_type # Empty
       /\ tiles_dict[t].tile_id # World_init(rows, cols, center_on_origin,
                                    [i \in 1..Len(tiles_order) |-> Empty])[t].tile_id
       /\ EmptyNeighbours(tiles_dict, t) # {}

\* store td2 is store td with exactly type and id of t1 and t2 exchanged
SwitchExchanges(td, td2, t1, t2) ==
  /\ DOMAIN td2 = DOMAIN td
  /\ td2[t1].tile_type = td[t2].tile_type /\ td2[t1].tile_id = td[t2].tile_id
  /\ td2[t2].tile_type = td[t1].tile_type /\ td2[t2].tile_id = td[t1].tile_id
  /\ td2[t1].tile_position = td[t1].tile_position
  /\ td2[t2].tile_position = td[t2].tile_position
  /\ \A u \in DOMAIN td : u \notin {t1, t2} => td2[u] = td[u]

\* C14: switch_tiles on two distinct tiles exchanges exactly their type and
\* id and leaves their positions, every other tile and the location index as
\* they were: for every pair of tiles of a store between steps, and in every
\* switch run_step commits.
C14_SwitchExchangesTypeAndId ==
  [][ /\ pc = "idle" =>
           \A t1, t2 \in Tiles :
             t1 # t2 => SwitchExchanges(tiles_dict,
                                        switch_tiles(tiles_dict, t1, t2), t1, t2)
      /\ (pc = "commit" /\ pos <= Len(non_dups)) =>
           SwitchExchanges(tiles_dict, tiles_dict',
                           non_dups[pos][1], non_dups[pos][2]) ]_vars

\* witness of C14: run_step has committed a switch of two distinct tiles
C14_Witness ==
  /\ pc = "commit" /\ pos = 2
  /\ non_dups[1][1] # non_dups[1][2]
  /\ tiles_dict # pre

\* C15: a proposal never names the proposing tile: the destination
\* wants_to_move_to_tile returns between steps, and the destination of every
\* entry of the movement matrix, is another tile at another position.
C15_NeverProposesItself ==
  /\ pc = "idle" =>
       \A t \in Tiles :
         LET w == wants_to_move_to_tile(tiles_dict, t)
         IN w.tile # <<>> =>
              /\ w.tile[1] # t
              /\ tiles_dict[w.tile[1]].tile_position # tiles_dict[t].tile_position
  /\ \A k \in 1..Len(movement_matrix) :
       /\ movement_matrix[k][1][1] # movement_matrix[k][2]
       /\ tiles_dict[movement_matrix[k][1][1]].tile_position
            # tiles_dict[movement_matrix[k][2]].tile_position

\* witness of C15: the loop of run_step has recorded two proposals
C15_Witness == pc = "propose" /\ Len(movement_matrix) >= 2

\* number of tiles of store td that have type ty
TypeCount(td, ty) == Cardinality({t \in DOMAIN td : td[t].tile_type = ty})

\* C18: id and type travel together: over every step each id keeps its
\* type, so the number of tiles of each type never changes.
C18_IdKeepsItsType ==
  [][ tiles_dict' # tiles_dict =>
        /\ \A t \in DOMAIN tiles_dict : \A u \in DOMAIN tiles_dict' :
             tiles_dict[t].tile_id = tiles_dict'[u].tile_id
               => tiles_dict[t].tile_type = tiles_dict'[u].tile_type
        /\ \A ty \in TileType :
             TypeCount(tiles_dict', ty) = TypeCount(tiles_dict, ty) ]_vars

\* witness of C18: after a step a Blue and a Green id are stored at other
\* positions than before it
C18_Witness ==
  /\ pc = "idle" /\ outcome = "ok"
  /\ \A ty \in {Green, Blue} :
       \E t \in Tiles : /\ tiles_dict[t].tile_type = ty
                        /\ tiles_dict[t].tile_id # pre[t].tile_id

\* the position at which store td holds id i
PositionOfId(td, i) == CHOOSE t \in DOMAIN td : td[t].tile_id = i

IsOffset(t, u) == \E k \in 1..Len(octagonal_directions) : u = Offset(t, k)

\* C19 as stated: after a run_step every id is at its old position or, if
\* its type is not Empty, one offset away at a position that held an Empty
\* tile; the position an agent leaves holds an Empty tile.
C19_EveryIdStaysOrIsAMovedAgent ==
  StepOver =>
    \A t \in Tiles :
      LET u == PositionOfId(tiles_dict, pre[t].tile_id)
      IN \/ u = t
         \/ /\ pre[t].tile_type # Empty
            /\ IsOffset(t, u)
            /\ pre[u].tile_type = Empty
            /\ tiles_dict[t].tile_type = Empty

\* C19 amended: after a run_step every id is at its old position or one
\* offset away; an agent's id that moved is at a position that held an Empty
\* tile and has left an Empty tile behind; an Empty tile's id that moved is at
\* the old position of the agent that took its place.
C19_MovesAreLocal ==
  StepOver =>
    \A t \in Tiles :
      LET u == PositionOfId(tiles_dict, pre[t].tile_id)
      IN \/ u = t
         \/ /\ IsOffset(t, u)
            /\ tiles_dict[t].tile_id = pre[u].tile_id
            /\ IF pre[t].tile_type # Empty
               THEN pre[u].tile_type = Empty /\ tiles_dict[t].tile_type = Empty
               ELSE pre[u].tile_type # Empty /\ tiles_dict[u].tile_type = Empty

\* witness of C19: a finished step in which two agents have moved
C19_Witness ==
  /\ StepOver
  /\ Cardinality({t \in Tiles : pre[t].tile_type # Empty
                               /\ tiles_dict[t].tile_id # pre[t].tile_id}) >= 2

\* C20: the neighbour relation of World is symmetric: B is a neighbour of A
\* exactly when A is a neighbour of B.
C20_NeighboursSymmetric ==
  \A a, b \in Tiles :
    b \in SeqToSet(tile_neighbours(tiles_dict, a))
      <=> a \in SeqToSet(tile_neighbours(tiles_dict, b))

\* ---------------------------------------------------------------- C13
\* C13: every World that construction yields was built with rows >= 1 and
\* cols >= 1 and with a weight table that is not empty and not all zero, and
\* it has a tile store that is not empty and a generator with at least one
\* range; any other construction ends in an error and yields no World.
C13_InvalidConstructionFails ==
  pc = "idle" =>
    /\ rows >= 1
    /\ cols >= 1
    /\ Len(type_weight_dict) > 0
    /\ SumWeights(type_weight_dict) > 0
    /\ DOMAIN tiles_dict # {}
    /\ Len(type_prob) > 0

\* ---------------------------------------------------------------- C16
\* C16: of two Worlds built from the same dimensions, centering flag and
\* tile list, one stepped by the statements of run_step and the other by
\* whole run_step calls, the stores (positions, types and ids) are equal
\* whenever both are between steps, after any number of steps; and no step
\* of run_step makes a draw.
C16_TwinWorldsAgree ==
  /\ [](pc = "idle" => twin_tiles_dict = tiles_dict)
  /\ [][r' = r]_vars

\* both worlds have finished a step in which an agent with several equally
\* good best destinations moved
C16_Witness ==
  /\ pc = "idle"
  /\ outcome = "ok"
  /\ twin_tiles_dict = tiles_dict
  /\ tiles_dict # pre
  /\ \E k \in 1..Len(non_dups) :
       LET des_mat == desirability_matrix(pre, non_dups[k][1])
       IN \E i \in 1..Len(des_mat) : \E j \in 1..Len(des_mat) :
            /\ i # j
            /\ ScoreEq(des_mat[i][2], des_mat[j][2])
            /\ ScoreEq(des_mat[i][2], MaxByScore(des_mat)[2])

\* ---------------------------------------------------------------- C17
FracEq(a, b) == a[1] * b[2] = b[1] * a[2]
PositiveTable ==
  /\ Len(type_weight_dict) > 0
  /\ \A i \in 1..Len(type_weight_dict) : type_weight_dict[i][2] > 0
WeightOf(t) ==
  type_weight_dict[CHOOSE i \in 1..Len(type_weight_dict) :
                     type_weight_dict[i][1] = t][2]
Lower(k) == type_prob[k][2][1]
Upper(k) == type_prob[k][2][2]
Holds(k, x) == FracLe(Lower(k), x) /\ FracLe(x, Upper(k))
LastDrawn == tiles_dict[tiles_order[pos]].tile_type

\* C17: for a table of positive weights the generator has one range per type
\* of the table, the types in ascending weight order, the first range
\* starting at 0, the last ending at 1, each range ending where the next
\* starts, each of length weight / sum of weights; the type of the tile just
\* drawn is one whose range holds the draw r, and when r is the end point of
\* a range that has a successor it is the type of that (lower) range.
C17_WeightPartition ==
  (pc = "draw" /\ PositiveTable) =>
    LET n == Len(type_prob)
        norm == SumWeights(type_weight_dict)
    IN /\ n = Len(type_weight_dict)
       /\ {type_prob[k][1] : k \in 1..n}
            = {type_weight_dict[i][1] : i \in 1..n}
       /\ \A k \in 1..(n - 1) :
            /\ WeightOf(type_prob[k][1]) <= WeightOf(type_prob[k + 1][1])
            /\ FracEq(Upper(k), Lower(k + 1))
       /\ FracEq(Lower(1), <<0, 1>>)
       /\ FracEq(Upper(n), <<1, 1>>)
       /\ \A k \in 1..n :
            (Upper(k)[1] * Lower(k)[2] - Lower(k)[1] * Upper(k)[2]) * norm
              = WeightOf(type_prob[k][1]) * Upper(k)[2] * Lower(k)[2]
       /\ \A j \in 1..n : \A k \in 1..n :
            j < k => FracLe(Upper(j), Lower(k))
       /\ pos > 0 =>
            /\ \E k \in 1..n : type_prob[k][1] = LastDrawn /\ Holds(k, r)
            /\ \A k \in 1..(n - 1) :
                 FracEq(r, Upper(k)) => LastDrawn = type_prob[k][1]

\* a tile was drawn with r exactly on the boundary shared by the first two
\* ranges of a table of positive weights
C17_Witness ==
  /\ pc = "draw"
  /\ rows >= 1
  /\ cols >= 1
  /\ PositiveTable
  /\ pos > 0
  /\ Len(type_prob) >= 2
  /\ FracEq(r, Upper(1))
  /\ LastDrawn = type_prob[1][1]


====
